---------------------------- MODULE Spec2Model ----------------------------
(***************************************************************************)
(* A model of app.py, the Neogen interview-question generator: the text   *)
(* extractor, the compliance scan, the completion client, the markdown    *)
(* cleaner, the document renderer and the Streamlit script that wires     *)
(* them together.                                                         *)
(*                                                                         *)
(* Texts are TLA+ strings handled character by character (Len, SubSeq,    *)
(* \o).  The module is ASCII, so the two non-ASCII markers of the source  *)
(* and the backtick are written as one reserved ASCII character each      *)
(* (BULLET, ENDASH, BACKTICK); the other typographic characters of the    *)
(* source (curly quotes, ellipsis, arrows) appear only inside fixed texts *)
(* and are written as their ASCII look-alikes.                             *)
(***************************************************************************)
EXTENDS Integers, Sequences, FiniteSets, TLC

VARIABLES
    text,            \* compliance_findings: its argument
    recased,         \* the same text in another letter case
    findings,        \* compliance_findings(text)
    findings_recased,\* compliance_findings(recased)
    scan_pc,         \* "input" | "scanned" | "rescanned"
    Document,        \* "docx" when python-docx was imported, "None" when not
    PdfReader,       \* "pypdf" when pypdf was imported, "None" when not
    upload,          \* the file uploader's value: a file, or NoUpload
    extracted,       \* what extract_text_from_upload(upload) came to
    extract_pc,      \* "idle" | "input" | "done"
    client,          \* _client: "OpenAI" when a client was made, "None" when not
    jd_text_area,    \* the text area's value
    settings,        \* the sidebar's values
    view,            \* what the last run of the script put on the page
    call,            \* the last call of call_llm: its arguments and what it came to
    presses,         \* the presses of Generate Interview Pack so far
    requests,        \* the requests made to the completion endpoint so far
    failures,        \* the requests that failed so far
    output,          \* the generated text: what call_llm returned
    md,              \* to_markdown(output)
    md_again,        \* to_markdown(md)
    paragraphs,      \* the paragraphs to_docx(md) added to the document
    render_errors,   \* the st.error messages of to_docx
    render_pc        \* "generated" | "cleaned" | "recleaned" | "rendered"

scanVars == <<text, recased, findings, findings_recased, scan_pc>>

renderVars == <<output, md, md_again, paragraphs, render_errors, render_pc>>

extractVars == <<extracted, extract_pc>>

libVars == <<Document, PdfReader, client>>

uiVars == <<jd_text_area, settings, view, call, presses, requests, failures>>

vars == <<scanVars, renderVars, upload, extractVars, libVars, uiVars>>

------------------------------------------------------------------------------
(* Characters and strings *)

Ch(s, i) == SubSeq(s, i, i)

CharsOf(s) == {Ch(s, i) : i \in 1..Len(s)}

Max(a, b) == IF a >= b THEN a ELSE b

Min(a, b) == IF a <= b THEN a ELSE b

UpperLetters == "ABCDEFGHIJKLMNOPQRSTUVWXYZ"

LowerLetters == "abcdefghijklmnopqrstuvwxyz"

Digits == "0123456789"

UpperSet == CharsOf(UpperLetters)

LowerSet == CharsOf(LowerLetters)

\* \w of Python's re on str: letters, digits and the underscore
WordChars == UpperSet \cup LowerSet \cup CharsOf(Digits) \cup {"_"}

IsWordChar(c) == c \in WordChars

ToLower == [c \in UpperSet |->
              Ch(LowerLetters, CHOOSE i \in 1..Len(UpperLetters) : Ch(UpperLetters, i) = c)]

ToUpper == [c \in LowerSet |->
              Ch(UpperLetters, CHOOSE i \in 1..Len(LowerLetters) : Ch(LowerLetters, i) = c)]

LowerCh(c) == IF c \in UpperSet THEN ToLower[c] ELSE c

UpperCh(c) == IF c \in LowerSet THEN ToUpper[c] ELSE c

RECURSIVE str_lower(_)
\* str.lower()
str_lower(s) == IF s = "" THEN "" ELSE LowerCh(Ch(s, 1)) \o str_lower(SubSeq(s, 2, Len(s)))

RECURSIVE str_upper(_)
\* str.upper()
str_upper(s) == IF s = "" THEN "" ELSE UpperCh(Ch(s, 1)) \o str_upper(SubSeq(s, 2, Len(s)))

RECURSIVE lstrip_chars(_, _)
lstrip_chars(s, cs) ==
    IF s # "" /\ Ch(s, 1) \in cs THEN lstrip_chars(SubSeq(s, 2, Len(s)), cs) ELSE s

RECURSIVE rstrip_chars(_, _)
rstrip_chars(s, cs) ==
    IF s # "" /\ Ch(s, Len(s)) \in cs THEN rstrip_chars(SubSeq(s, 1, Len(s) - 1), cs) ELSE s

\* str.strip(chars): every leading and trailing character that is in chars
strip_chars(s, cs) == rstrip_chars(lstrip_chars(s, cs), cs)

------------------------------------------------------------------------------
(* Regular expressions: the constructs the RISKY_PHRASES patterns use.     *)
(* Match gives the offsets at which a match of re that starts at offset i *)
(* can end, in the order the backtracking matcher tries them; an offset   *)
(* is the number of characters before it.                                  *)

Lit(s) == [t |-> "lit", s |-> s]

WB == [t |-> "wb"]

WStar == [t |-> "wstar"]

Opt(r) == [t |-> "opt", r |-> r]

Alt(rs) == [t |-> "alt", rs |-> rs]

Cat(rs) == [t |-> "cat", rs |-> rs]

\* \b at offset i: exactly one of the characters around it is a word character
AtWordBoundary(s, i) ==
    (i > 0 /\ IsWordChar(Ch(s, i))) # (i < Len(s) /\ IsWordChar(Ch(s, i + 1)))

RECURSIVE WordRun(_, _)
\* the number of word characters from offset i on
WordRun(s, i) == IF i < Len(s) /\ IsWordChar(Ch(s, i + 1)) THEN 1 + WordRun(s, i + 1) ELSE 0

RECURSIVE Match(_, _, _)
RECURSIVE MatchAlt(_, _, _, _)
RECURSIVE MatchCat(_, _, _, _)
RECURSIVE MatchRest(_, _, _, _, _)

Match(re, s, i) ==
    CASE re.t = "wb" -> IF AtWordBoundary(s, i) THEN <<i>> ELSE <<>>
      [] re.t = "lit" ->
            IF i + Len(re.s) <= Len(s) /\ SubSeq(s, i + 1, i + Len(re.s)) = re.s
            THEN <<i + Len(re.s)>> ELSE <<>>
      [] re.t = "cat" -> MatchCat(re.rs, 1, s, i)
      [] re.t = "alt" -> MatchAlt(re.rs, 1, s, i)
      [] re.t = "opt" -> Match(re.r, s, i) \o <<i>>
      [] re.t = "wstar" -> LET n == WordRun(s, i) IN [k \in 1..(n + 1) |-> i + n + 1 - k]

MatchAlt(rs, k, s, i) ==
    IF k > Len(rs) THEN <<>> ELSE Match(rs[k], s, i) \o MatchAlt(rs, k + 1, s, i)

MatchCat(rs, k, s, i) ==
    IF k > Len(rs) THEN <<i>> ELSE MatchRest(rs, k, s, Match(rs[k], s, i), 1)

MatchRest(rs, k, s, ends, j) ==
    IF j > Len(ends) THEN <<>>
    ELSE MatchCat(rs, k + 1, s, ends[j]) \o MatchRest(rs, k, s, ends, j + 1)

RECURSIVE SearchFrom(_, _, _)
SearchFrom(re, s, i) ==
    IF i > Len(s) THEN <<>>
    ELSE LET ends == Match(re, s, i)
         IN  IF ends # <<>> THEN <<i, ends[1]>> ELSE SearchFrom(re, s, i + 1)

\* re.search(pattern, s): << >> for None, else <<m.start(), m.end()>> of the
\* leftmost match
re_search(re, s) == SearchFrom(re, s, 0)

------------------------------------------------------------------------------
(* Compliance preflight *)

RISKY_PHRASES == <<
    [pattern |-> "\\byoung\\b",
     re      |-> Cat(<<WB, Lit("young"), WB>>),
     advice  |-> "Avoid age implications"],
    [pattern |-> "\\brecent graduate\\b",
     re      |-> Cat(<<WB, Lit("recent graduate"), WB>>),
     advice  |-> "Avoid age proxy"],
    [pattern |-> "\\bable\\-?bodied\\b",
     re      |-> Cat(<<WB, Lit("able"), Opt(Lit("-")), Lit("bodied"), WB>>),
     advice  |-> "Avoid disability bias"],
    [pattern |-> "\\bmust be a (us|uk|eu) citizen\\b",
     re      |-> Cat(<<WB, Lit("must be a "), Alt(<<Lit("us"), Lit("uk"), Lit("eu")>>),
                       Lit(" citizen"), WB>>),
     advice  |-> "Citizenship limits can be discriminatory"],
    [pattern |-> "\\bnative (english|speaker)\\b",
     re      |-> Cat(<<WB, Lit("native "), Alt(<<Lit("english"), Lit("speaker")>>), WB>>),
     advice  |-> "Language as a proxy for nationality"],
    [pattern |-> "\\b(no )?criminal record\\b",
     re      |-> Cat(<<WB, Opt(Lit("no ")), Lit("criminal record"), WB>>),
     advice  |-> "Ban-the-box concerns"],
    [pattern |-> "\\bclean driving record\\b",
     re      |-> Cat(<<WB, Lit("clean driving record"), WB>>),
     advice  |-> "If driving is essential, state requirement neutrally and per local law."],
    [pattern |-> "\\b(no )?pregnan\\w*\\b",
     re      |-> Cat(<<WB, Opt(Lit("no ")), Lit("pregnan"), WStar, WB>>),
     advice  |-> "Pregnancy/family status is protected"],
    [pattern |-> "\\bmarried|single|divorced\\b",
     re      |-> Alt(<<Cat(<<WB, Lit("married")>>), Lit("single"),
                       Cat(<<Lit("divorced"), WB>>)>>),
     advice  |-> "Family/marital status is protected"] >>

\* pattern.strip("\\b"): the label a finding carries
PatternLabel(pattern) == strip_chars(pattern, {"\\", "b"})

\* text[max(0, m.start() - 30): m.end() + 30]
Snippet(txt, m) == SubSeq(txt, Max(0, m[1] - 30) + 1, Min(Len(txt), m[2] + 30))

\* one finding of the scan
Finding(entry, txt, m) ==
    [label  |-> PatternLabel(entry.pattern),
     advice |-> entry.advice \o "  Snippet: ..." \o Snippet(txt, m) \o "..."]

RECURSIVE OccurrencesFrom(_, _, _)
\* the matches re.finditer would give: leftmost first, none overlapping
OccurrencesFrom(re, s, i) ==
    LET m == SearchFrom(re, s, i)
    IN  IF m = <<>> THEN <<>>
        ELSE <<m>> \o OccurrencesFrom(re, s, IF m[2] > m[1] THEN m[2] ELSE m[2] + 1)

RECURSIVE FindingsOf(_, _, _, _)
FindingsOf(entry, txt, ms, j) ==
    IF j > Len(ms) THEN <<>>
    ELSE <<Finding(entry, txt, ms[j])>> \o FindingsOf(entry, txt, ms, j + 1)

\* the loop body as it would be with a finding for every occurrence
ScanPattern_EveryOccurrence(entry, txt, lowered) ==
    FindingsOf(entry, txt, OccurrencesFrom(entry.re, lowered, 0), 1)

\* the body of the for loop of compliance_findings for one table entry
ScanPattern(entry, txt, lowered) ==
    LET m == re_search(entry.re, lowered)
    IN  IF m # <<>> THEN <<Finding(entry, txt, m)>> ELSE <<>>

RECURSIVE ScanFrom(_, _, _)
ScanFrom(k, txt, lowered) ==
    IF k > Len(RISKY_PHRASES) THEN <<>>
    ELSE ScanPattern(RISKY_PHRASES[k], txt, lowered) \o ScanFrom(k + 1, txt, lowered)

\* the scan as it would be without text.lower()
compliance_findings_CaseSensitive(txt) == ScanFrom(1, txt, txt)

compliance_findings(txt) == ScanFrom(1, txt, str_lower(txt))

------------------------------------------------------------------------------
(* The parts of the state a specification leaves alone *)

ScanIdle ==
    /\ text = ""
    /\ recased = ""
    /\ findings = <<>>
    /\ findings_recased = <<>>
    /\ scan_pc = "idle"

NoResult == [raised |-> FALSE, value |-> "", messages |-> <<>>]

ExtractIdle ==
    /\ upload = [present |-> FALSE, name |-> "", bytes |-> <<>>, opens |-> FALSE,
                 paragraphs |-> <<>>, pages |-> <<>>]
    /\ extracted = NoResult
    /\ extract_pc = "idle"

LibsImported ==
    /\ Document = "docx"
    /\ PdfReader = "pypdf"
    /\ client = "OpenAI"

UiIdle ==
    /\ jd_text_area = ""
    /\ settings = <<>>
    /\ view = <<>>
    /\ call = <<>>
    /\ presses = 0
    /\ requests = 0
    /\ failures = 0

RenderIdle ==
    /\ output = ""
    /\ md = ""
    /\ md_again = ""
    /\ paragraphs = <<>>
    /\ render_errors = <<>>
    /\ render_pc = "idle"

------------------------------------------------------------------------------
(* The scan's inputs: job-description texts, each a few phrases joined by *)
(* nothing or by a blank, and the same text in another letter case        *)

MaxPhrases == 2

Phrases ==
    {"young", "recent graduate", "able-bodied", "must be a uk citizen",
     "native speaker", "no criminal record", "clean driving record", "pregnancy",
     "single", "married", "divorced", "ton"}

Joiners == {"", " "}

RECURSIVE TextsOf(_, _)
TextsOf(n, j) ==
    IF n = 0 THEN {""}
    ELSE LET P == TextsOf(n - 1, j)
         IN  P \cup Phrases \cup {p \o j \o f : p \in P \ {""}, f \in Phrases}

ScanTexts == UNION {TextsOf(MaxPhrases, j) : j \in Joiners}

RECURSIVE AlternateCase(_, _)
AlternateCase(s, up) ==
    IF s = "" THEN ""
    ELSE (IF up THEN UpperCh(Ch(s, 1)) ELSE LowerCh(Ch(s, 1)))
         \o AlternateCase(SubSeq(s, 2, Len(s)), ~up)

RecaseModes == {"upper", "alternate"}

\* a text that differs from s in letter case only
Recase(s, mode) ==
    CASE mode = "upper" -> str_upper(s)
      [] mode = "alternate" -> AlternateCase(s, FALSE)

ScanInit ==
    /\ RenderIdle
    /\ ExtractIdle
    /\ UiIdle
    /\ LibsImported
    /\ text \in ScanTexts
    /\ recased = ""
    /\ findings = <<>>
    /\ findings_recased = <<>>
    /\ scan_pc = "input"

\* the preflight scan of the job description (app.py line 350)
Scan ==
    /\ scan_pc = "input"
    /\ findings' = compliance_findings(text)
    /\ scan_pc' = "scanned"
    /\ UNCHANGED <<text, recased, findings_recased, renderVars, upload, extractVars, libVars, uiVars>>

\* the scan of the same job description typed in another letter case
ScanRecased ==
    /\ scan_pc = "scanned"
    /\ \E mode \in RecaseModes :
          /\ recased' = Recase(text, mode)
          /\ findings_recased' = compliance_findings(Recase(text, mode))
    /\ scan_pc' = "rescanned"
    /\ UNCHANGED <<text, findings, renderVars, upload, extractVars, libVars, uiVars>>

ScanNext == Scan \/ ScanRecased

SpecScan == ScanInit /\ [][ScanNext]_vars

------------------------------------------------------------------------------
(* Claims about the compliance scan *)

Labels(fs) == [i \in 1..Len(fs) |-> fs[i].label]

TableLabel(k) == PatternLabel(RISKY_PHRASES[k].pattern)

TableIndex(l) == CHOOSE k \in 1..Len(RISKY_PHRASES) : TableLabel(k) = l

PatternMatches(k, txt) == re_search(RISKY_PHRASES[k].re, str_lower(txt)) # <<>>

\* C1: the findings of a scan are the table's patterns that match the text,
\* one finding each and in table order: a pattern has a finding exactly when
\* it matches, no label comes twice, the labels follow the table's order, and
\* a text no pattern matches has no findings.
C1_OneFindingPerMatchingPattern ==
    scan_pc = "scanned" =>
        /\ \A i \in 1..Len(findings) :
              \E k \in 1..Len(RISKY_PHRASES) : findings[i].label = TableLabel(k)
        /\ \A k \in 1..Len(RISKY_PHRASES) :
              (\E i \in 1..Len(findings) : findings[i].label = TableLabel(k))
                  <=> PatternMatches(k, text)
        /\ \A i, j \in 1..Len(findings) :
              i < j => TableIndex(findings[i].label) < TableIndex(findings[j].label)
        /\ ((\A k \in 1..Len(RISKY_PHRASES) : ~PatternMatches(k, text)) => findings = <<>>)

\* C1 witness: a scanned text in which a pattern occurs more than once
C1_Witness ==
    /\ scan_pc = "scanned"
    /\ findings # <<>>
    /\ \E k \in 1..Len(RISKY_PHRASES) :
          Len(OccurrencesFrom(RISKY_PHRASES[k].re, str_lower(text), 0)) >= 2

\* the risky term of each table entry, without its word boundaries
RiskyTerms == <<
    Lit("young"),
    Lit("recent graduate"),
    Cat(<<Lit("able"), Opt(Lit("-")), Lit("bodied")>>),
    Cat(<<Lit("must be a "), Alt(<<Lit("us"), Lit("uk"), Lit("eu")>>), Lit(" citizen")>>),
    Cat(<<Lit("native "), Alt(<<Lit("english"), Lit("speaker")>>)>>),
    Cat(<<Opt(Lit("no ")), Lit("criminal record")>>),
    Lit("clean driving record"),
    Cat(<<Opt(Lit("no ")), Lit("pregnan"), WStar>>),
    Alt(<<Lit("married"), Lit("single"), Lit("divorced")>> ) >>

\* the term of entry k occurs in txt between two word boundaries
OccursAsWholeWords(k, txt) ==
    re_search(Cat(<<WB, RiskyTerms[k], WB>>), str_lower(txt)) # <<>>

\* C5: a pattern has a finding only when its risky term occurs in the text
\* as whole words, for each of the nine patterns.
C5_WordBoundariesOnly ==
    scan_pc = "scanned" =>
        \A k \in 1..Len(RISKY_PHRASES) :
            (\E i \in 1..Len(findings) : findings[i].label = TableLabel(k))
                => OccursAsWholeWords(k, text)

\* C8: a text and the same text in another letter case get the same labels
\* in the same order.
C8_CaseInsensitive ==
    scan_pc = "rescanned" =>
        (str_lower(recased) = str_lower(text) => Labels(findings_recased) = Labels(findings))

\* C8 witness: the recased text differs from the text and both have findings
C8_Witness ==
    /\ scan_pc = "rescanned"
    /\ recased # text
    /\ str_lower(recased) = str_lower(text)
    /\ findings # <<>>
    /\ findings_recased # <<>>

------------------------------------------------------------------------------
(* Formatting helpers *)

BULLET == "@"   \* stands for U+2022, the bullet
ENDASH == "#"   \* stands for U+2013, the en dash

BACKTICK == "^" \* stands for U+0060, the backtick, which a TLA+ string cannot hold

NL == "\n"

\* what str.strip() removes
Whitespace == {" ", "\t", "\n", "\r", "\f"}

\* str.strip()
str_strip(s) == strip_chars(s, Whitespace)

RECURSIVE RunLen(_, _, _)
\* the length of the run of c that starts at offset i
RunLen(s, c, i) == IF i < Len(s) /\ Ch(s, i + 1) = c THEN 1 + RunLen(s, c, i + 1) ELSE 0

\* the first offset from i on at which c stands, Len(s) when there is none
NextOffset(s, c, i) ==
    CHOOSE j \in i..Len(s) :
        /\ j = Len(s) \/ Ch(s, j + 1) = c
        /\ \A k \in i..(j - 1) : Ch(s, k + 1) # c

RECURSIVE ReSubRuns(_, _, _, _)
\* re.sub of a pattern c{n,} (every maximal run of n or more c) by repl
ReSubRuns(s, c, n, repl) ==
    LET at == NextOffset(s, c, 0)
        k == RunLen(s, c, at)
    IN  IF at = Len(s) THEN s
        ELSE SubSeq(s, 1, at) \o (IF k >= n THEN repl ELSE SubSeq(s, at + 1, at + k))
             \o ReSubRuns(SubSeq(s, at + k + 1, Len(s)), c, n, repl)

RECURSIVE ReSubLiteral(_, _, _)
\* re.sub of a literal pattern by repl
ReSubLiteral(s, lit, repl) ==
    IF Len(s) < Len(lit) THEN s
    ELSE IF SubSeq(s, 1, Len(lit)) = lit
         THEN repl \o ReSubLiteral(SubSeq(s, Len(lit) + 1, Len(s)), lit, repl)
         ELSE Ch(s, 1) \o ReSubLiteral(SubSeq(s, 2, Len(s)), lit, repl)

\* re.sub of the code-fence pattern (two backticks, then one or more) by ""
StripFences(s) == ReSubRuns(s, BACKTICK, 3, "")

\* the collapse as it would be with the pattern \n\n\n in place of \n{3,}
CollapseNewlines_FixedTriple(s) == ReSubLiteral(s, NL \o NL \o NL, NL \o NL)

\* re.sub(r"\n{3,}", "\n\n", text)
CollapseNewlines(s) == ReSubRuns(s, NL, 3, NL \o NL)

to_markdown(txt) == str_strip(CollapseNewlines(StripFences(txt)))

RECURSIVE SplitFrom(_, _)
\* s.split(sep) for a one-character sep: the pieces from offset from on
SplitFrom(s, from) ==
    LET at == NextOffset(s, NL, from)
    IN  IF at = Len(s) THEN <<SubSeq(s, from + 1, Len(s))>>
        ELSE <<SubSeq(s, from + 1, at)>> \o SplitFrom(s, at + 1)

\* markdown_like.split("\n")
SplitLines(s) == SplitFrom(s, 0)

startswith(s, prefix) == Len(s) >= Len(prefix) /\ SubSeq(s, 1, Len(prefix)) = prefix

endswith(s, suffix) ==
    Len(s) >= Len(suffix) /\ SubSeq(s, Len(s) - Len(suffix) + 1, Len(s)) = suffix

\* add_bullet(p_text, level): one paragraph, styled List Bullet or List Bullet 2
add_bullet(p_text, level) == [kind |-> IF level = 1 THEN "bullet1" ELSE "bullet2", text |-> p_text]

\* the body of the for loop of to_docx: the paragraph one line becomes
RenderLine(ln) ==
    LET s == str_strip(ln)
    IN  IF s = "" THEN [kind |-> "blank", text |-> ""]
        ELSE IF startswith(s, "**") /\ endswith(s, "**") /\ Len(s) > 4
             THEN [kind |-> "heading", text |-> strip_chars(s, {"*"})]
        ELSE IF startswith(s, BULLET \o " ")
             THEN add_bullet(str_strip(SubSeq(s, 3, Len(s))), 1)
        ELSE IF startswith(s, ENDASH \o " ") \/ startswith(s, "- ")
             THEN add_bullet(str_strip(SubSeq(s, 3, Len(s))), 2)
        ELSE [kind |-> "plain", text |-> s]

\* to_docx: the paragraphs of the saved document and the errors shown
to_docx(markdown_like, doc_module) ==
    IF doc_module = "None"
    THEN [paragraphs |-> <<>>, errors |-> <<"python-docx not installed">>]
    ELSE LET lines == SplitLines(markdown_like)
         IN  [paragraphs |-> [i \in 1..Len(lines) |-> RenderLine(lines[i])],
              errors     |-> <<>>]

------------------------------------------------------------------------------
(* The renderer's inputs: generated texts, every string of a few characters *)
(* that matter to the cleaning, and texts of a few lines that matter to the *)
(* rendering                                                                *)

MaxLen == 7

MaxLines == 2

MdAlphabet == {"a", BACKTICK, NL, " "}

RECURSIVE StringsUpTo(_)
StringsUpTo(n) ==
    IF n = 0 THEN {""}
    ELSE LET P == StringsUpTo(n - 1) IN P \cup {p \o c : p \in P, c \in MdAlphabet}

LineSamples ==
    {"", "a", "**H**", " **H** ", "***H***", "*****", "****", "**H",
     BULLET \o " a", BULLET \o "a", ENDASH \o " a", "- a", "-a", "- **a**"}

RECURSIVE LinesUpTo(_)
LinesUpTo(n) ==
    IF n = 1 THEN LineSamples
    ELSE LET P == LinesUpTo(n - 1) IN P \cup {p \o NL \o l : p \in P, l \in LineSamples}

Outputs == StringsUpTo(MaxLen) \cup LinesUpTo(MaxLines)

RenderInit ==
    /\ ScanIdle
    /\ ExtractIdle
    /\ UiIdle
    /\ Document \in {"docx", "None"}
    /\ PdfReader = "pypdf"
    /\ client = "OpenAI"
    /\ output \in Outputs
    /\ md = ""
    /\ md_again = ""
    /\ paragraphs = <<>>
    /\ render_errors = <<>>
    /\ render_pc = "generated"

\* md = to_markdown(output) (app.py line 374)
Clean ==
    /\ render_pc = "generated"
    /\ md' = to_markdown(output)
    /\ render_pc' = "cleaned"
    /\ UNCHANGED <<output, md_again, paragraphs, render_errors, scanVars, upload, extractVars, libVars, uiVars>>

\* the cleaning applied to its own result
CleanAgain ==
    /\ render_pc = "cleaned"
    /\ md_again' = to_markdown(md)
    /\ render_pc' = "recleaned"
    /\ UNCHANGED <<output, md, paragraphs, render_errors, scanVars, upload, extractVars, libVars, uiVars>>

\* docx_bytes = to_docx(md) (app.py line 380)
Render ==
    /\ render_pc = "cleaned"
    /\ LET doc == to_docx(md, Document)
       IN  /\ paragraphs' = doc.paragraphs
           /\ render_errors' = doc.errors
    /\ render_pc' = "rendered"
    /\ UNCHANGED <<output, md, md_again, scanVars, upload, extractVars, libVars, uiVars>>

RenderNext == Clean \/ CleanAgain \/ Render

SpecRender == RenderInit /\ [][RenderNext]_vars

------------------------------------------------------------------------------
(* Claims about the cleaning and the rendering *)

\* s holds lit somewhere
Contains(s, lit) == \E i \in 0..(Len(s) - Len(lit)) : SubSeq(s, i + 1, i + Len(lit)) = lit

\* a line to_docx treats as blank
IsBlankLine(ln) == str_strip(ln) = ""

\* C3: cleaning a cleaned text changes nothing, and a cleaned text holds no
\* code fence, no run of three or more newlines and no leading or trailing
\* whitespace.
C3_CleaningIdempotent ==
    render_pc = "recleaned" =>
        /\ md_again = md
        /\ ~Contains(md, BACKTICK \o BACKTICK \o BACKTICK)
        /\ ~Contains(md, NL \o NL \o NL)
        /\ str_strip(md) = md

\* C3 witness: a text the cleaning changed in all three ways, cleaned twice
C3_Witness ==
    /\ render_pc = "recleaned"
    /\ Contains(output, BACKTICK \o BACKTICK \o BACKTICK)
    /\ Contains(StripFences(output), NL \o NL \o NL)
    /\ str_strip(output) # output
    /\ md # ""

\* the kind of paragraph the rendering rules give a line: the first rule
\* that applies to the trimmed line
ClaimedKind(ln) ==
    LET s == str_strip(ln)
    IN  CASE s = "" -> "blank"
          [] s # "" /\ startswith(s, "**") /\ endswith(s, "**") /\ Len(s) > 4 -> "heading"
          [] OTHER ->
               IF startswith(s, BULLET \o " ") THEN "bullet1"
               ELSE IF startswith(s, ENDASH \o " ") \/ startswith(s, "- ") THEN "bullet2"
               ELSE "plain"

\* C6: the document has one paragraph per line of the text, in line order,
\* each of the kind the first applicable rule gives, and a heading's text
\* is never empty.
C6_OneParagraphPerLine ==
    (render_pc = "rendered" /\ Document = "docx") =>
        LET lines == SplitLines(md)
        IN  /\ Len(paragraphs) = Len(lines)
            /\ \A i \in 1..Len(paragraphs) :
                  /\ paragraphs[i].kind = ClaimedKind(lines[i])
                  /\ (paragraphs[i].kind = "heading" => paragraphs[i].text # "")

\* the longest run of consecutive lines that satisfy Blank(_)
RECURSIVE LongestRun(_, _, _, _)
LongestRun(flags, i, run, best) ==
    IF i > Len(flags) THEN Max(run, best)
    ELSE IF flags[i] THEN LongestRun(flags, i + 1, run + 1, best)
    ELSE LongestRun(flags, i + 1, 0, Max(run, best))

LongestBlankRun(lines) ==
    LongestRun([i \in 1..Len(lines) |-> IsBlankLine(lines[i])], 1, 0, 0)

LongestBlankParagraphRun(ps) ==
    LongestRun([i \in 1..Len(ps) |-> ps[i].kind = "blank"], 1, 0, 0)

\* C7 as claimed, a blank line being one that is empty after trimming: the
\* cleaned text has no run of three or more blank lines, and where the
\* generated text had such a run the document has one blank paragraph, not
\* several.
C7_BlankRunsCollapsed ==
    (render_pc = "rendered" /\ Document = "docx") =>
        /\ LongestBlankRun(SplitLines(md)) < 3
        /\ (LongestBlankRun(SplitLines(output)) >= 3 => LongestBlankParagraphRun(paragraphs) <= 1)

\* a character that neither the trimming nor the fence removal touches
IsInk(c) == c \notin Whitespace /\ c # BACKTICK

\* the places of s where k or more newlines stand between two ink characters
Gaps(s, k) ==
    {i \in 1..Len(s) :
        /\ IsInk(Ch(s, i))
        /\ RunLen(s, NL, i) >= k
        /\ i + RunLen(s, NL, i) < Len(s)
        /\ IsInk(Ch(s, i + RunLen(s, NL, i) + 1))}

\* the blank paragraphs that stand alone between two paragraphs that are not blank
LoneBlanks(ps) ==
    {j \in 2..(Len(ps) - 1) :
        ps[j].kind = "blank" /\ ps[j - 1].kind # "blank" /\ ps[j + 1].kind # "blank"}

\* C7 as amended, for runs of newline characters: the cleaned text has no
\* run of three or more newlines, so no two consecutive empty lines, and each
\* run of three or more newlines between two characters of text has become
\* one empty line, rendered as one blank paragraph between two paragraphs
\* that are not blank.
C7_NewlineRunsCollapsed ==
    (render_pc = "rendered" /\ Document = "docx") =>
        LET lines == SplitLines(md)
        IN  /\ ~Contains(md, NL \o NL \o NL)
            /\ \A i \in 1..(Len(lines) - 1) : ~(lines[i] = "" /\ lines[i + 1] = "")
            /\ Len(paragraphs) = Len(lines)
            /\ \A i \in 1..Len(lines) : lines[i] = "" => paragraphs[i].kind = "blank"
            /\ Cardinality(Gaps(md, 2)) >= Cardinality(Gaps(output, 3))
            /\ Cardinality(LoneBlanks(paragraphs)) >= Cardinality(Gaps(output, 3))

\* C7 witness: four newlines between two characters, rendered as one blank
\* paragraph between two plain ones
C7_Witness ==
    /\ render_pc = "rendered"
    /\ Document = "docx"
    /\ Gaps(output, 4) # {}
    /\ Len(paragraphs) = 3
    /\ paragraphs[1].kind = "plain"
    /\ paragraphs[2].kind = "blank"
    /\ paragraphs[3].kind = "plain"

------------------------------------------------------------------------------
(* Text extraction.  An upload has a name and data.  The data of a text   *)
(* file are its bytes; the data of a .docx or .pdf file are what the      *)
(* parsing library makes of them: a container it rejects (opens is        *)
(* FALSE), or one it opens, with the paragraphs or the pages it holds.    *)

File(nm, bs, ok, paras, pgs) ==
    [present |-> TRUE, name |-> nm, bytes |-> bs, opens |-> ok,
     paragraphs |-> paras, pages |-> pgs]

\* the file uploader's value when nothing is uploaded: None
NoUpload ==
    [present |-> FALSE, name |-> "", bytes |-> <<>>, opens |-> FALSE,
     paragraphs |-> <<>>, pages |-> <<>>]

\* the characters of the decoded texts, by code point; the letters beyond
\* ASCII are written as capitals
Chr ==
    [b \in {97, 169, 195, 233, 255} |->
        CASE b = 97 -> "a"      \* U+0061
          [] b = 169 -> "C"     \* U+00A9
          [] b = 195 -> "A"     \* U+00C3
          [] b = 233 -> "E"     \* U+00E9
          [] b = 255 -> "Y"]    \* U+00FF

IsContinuation(b) == 128 <= b /\ b <= 191

RECURSIVE decode_utf8(_, _)
\* bytes.decode("utf-8") from offset i: the text, or raised on a byte
\* sequence that is not UTF-8 (one- and two-byte sequences)
decode_utf8(bytes, i) ==
    IF i >= Len(bytes) THEN [raised |-> FALSE, value |-> ""]
    ELSE LET b == bytes[i + 1]
         IN  IF b < 128
             THEN LET rest == decode_utf8(bytes, i + 1)
                  IN  [raised |-> rest.raised, value |-> Chr[b] \o rest.value]
             ELSE IF 194 <= b /\ b <= 223 /\ i + 1 < Len(bytes) /\ IsContinuation(bytes[i + 2])
             THEN LET rest == decode_utf8(bytes, i + 2)
                  IN  [raised |-> rest.raised,
                       value  |-> Chr[(b - 192) * 64 + (bytes[i + 2] - 128)] \o rest.value]
             ELSE [raised |-> TRUE, value |-> ""]

RECURSIVE decode_latin1(_, _)
\* bytes.decode("latin-1", errors="ignore"): every byte is a character
decode_latin1(bytes, i) ==
    IF i >= Len(bytes) THEN "" ELSE Chr[bytes[i + 1]] \o decode_latin1(bytes, i + 1)

RECURSIVE str_join(_, _, _)
\* sep.join(parts), from part k on
str_join(sep, parts, k) ==
    IF k > Len(parts) THEN ""
    ELSE IF k = Len(parts) THEN parts[k]
    ELSE parts[k] \o sep \o str_join(sep, parts, k + 1)

RECURSIVE PageTexts_EmptyOnFailure(_, _)
\* the page loop as it would be with text.append("") in the handler
PageTexts_EmptyOnFailure(pages, k) ==
    IF k > Len(pages) THEN <<>>
    ELSE (IF pages[k].raises THEN <<"">>
          ELSE <<IF pages[k].text = "None" THEN "" ELSE pages[k].text>>)
         \o PageTexts_EmptyOnFailure(pages, k + 1)

RECURSIVE PageTexts(_, _)
\* the for loop over reader.pages: page.extract_text() or "" is appended,
\* and a page whose extract_text() raises is passed over
PageTexts(pages, k) ==
    IF k > Len(pages) THEN <<>>
    ELSE (IF pages[k].raises THEN <<>>
          ELSE <<IF pages[k].text = "None" THEN "" ELSE pages[k].text>>)
         \o PageTexts(pages, k + 1)

Returned(v) == [raised |-> FALSE, value |-> v, messages |-> <<>>]

ReturnedWith(v, msg) == [raised |-> FALSE, value |-> v, messages |-> <<msg>>]

Raised == [raised |-> TRUE, value |-> "", messages |-> <<>>]

extract_text_from_upload(up, doc_module, pdf_module) ==
    IF ~up.present THEN Returned("")
    ELSE LET name == str_lower(up.name)
             data == up
         IN  IF endswith(name, ".txt") \/ endswith(name, ".md")
             THEN LET strict == decode_utf8(data.bytes, 0)
                  IN  IF ~strict.raised THEN Returned(strict.value)
                      ELSE Returned(decode_latin1(data.bytes, 0))
             ELSE IF endswith(name, ".docx")
             THEN IF doc_module = "None" THEN ReturnedWith("", "python-docx not installed")
                  ELSE IF ~data.opens THEN Raised
                  ELSE Returned(str_join(NL, data.paragraphs, 1))
             ELSE IF endswith(name, ".pdf")
             THEN IF pdf_module = "None" THEN ReturnedWith("", "pypdf not installed")
                  ELSE IF ~data.opens THEN Raised
                  ELSE Returned(str_join(NL, PageTexts(data.pages, 1), 1))
             ELSE ReturnedWith("", "Unsupported file type")

------------------------------------------------------------------------------
(* The extractor's inputs *)

MaxBytes == 2

MaxParagraphs == 2

MaxPages == 3

ByteSamples == {97, 169, 195, 255}

ParagraphSamples == {"A", "B", ""}

PageSamples ==
    {[raises |-> FALSE, text |-> "A"], [raises |-> FALSE, text |-> "B"],
     [raises |-> FALSE, text |-> "None"], [raises |-> TRUE, text |-> "None"]}

SeqsUpTo(S, n) == UNION {[1..k -> S] : k \in 0..n}

TextUploads ==
    {File(nm, d, FALSE, <<>>, <<>>) :
        nm \in {"jd.txt", "JD.MD"}, d \in SeqsUpTo(ByteSamples, MaxBytes)}

DocxUploads ==
    {File("jd.docx", <<>>, FALSE, <<>>, <<>>)}
    \cup {File("jd.docx", <<>>, TRUE, ps, <<>>) : ps \in SeqsUpTo(ParagraphSamples, MaxParagraphs)}

PdfUploads ==
    {File("jd.pdf", <<>>, FALSE, <<>>, <<>>)}
    \cup {File("jd.pdf", <<>>, TRUE, <<>>, ps) : ps \in SeqsUpTo(PageSamples, MaxPages)}

OtherUploads == {File("jd.png", <<>>, FALSE, <<>>, <<>>)}

Uploads == TextUploads \cup DocxUploads \cup PdfUploads \cup OtherUploads

ExtractInit ==
    /\ ScanIdle
    /\ RenderIdle
    /\ UiIdle
    /\ Document \in {"docx", "None"}
    /\ PdfReader \in {"pypdf", "None"}
    /\ client = "OpenAI"
    /\ upload \in {NoUpload} \cup Uploads
    /\ extracted = NoResult
    /\ extract_pc = "input"

\* jd_text = extract_text_from_upload(upload) (app.py line 342)
Extract ==
    /\ extract_pc = "input"
    /\ extracted' = extract_text_from_upload(upload, Document, PdfReader)
    /\ extract_pc' = "done"
    /\ UNCHANGED <<upload, scanVars, renderVars, libVars, uiVars>>

ExtractNext == Extract

SpecExtract == ExtractInit /\ [][ExtractNext]_vars

------------------------------------------------------------------------------
(* Claims about the extraction *)

SupportedName(nm) ==
    \E ext \in {".txt", ".md", ".docx", ".pdf"} : endswith(str_lower(nm), ext)

\* C4: for an upload whose name ends in a supported extension the
\* extraction returns a string and never raises, whatever the file holds.
C4_ExtractionNeverRaises ==
    (extract_pc = "done" /\ upload.present /\ SupportedName(upload.name)) => ~extracted.raised

IsOpenedPdf ==
    /\ extract_pc = "done"
    /\ upload.present
    /\ endswith(str_lower(upload.name), ".pdf")
    /\ PdfReader # "None"
    /\ upload.opens

PageTextOrEmpty(page) == IF page.raises \/ page.text = "None" THEN "" ELSE page.text

\* C9 as claimed: the result is the N page texts joined by newline, a page
\* whose extraction fails counting as the empty text.
C9_OneSegmentPerPage ==
    IsOpenedPdf =>
        /\ ~extracted.raised
        /\ extracted.value =
              str_join(NL, [k \in 1..Len(upload.pages) |->
                                PageTextOrEmpty(upload.pages[k])], 1)

\* the pages whose extraction did not raise, in page order
RECURSIVE GoodPages(_, _)
GoodPages(pages, k) ==
    IF k > Len(pages) THEN <<>>
    ELSE (IF pages[k].raises THEN <<>> ELSE <<pages[k]>>) \o GoodPages(pages, k + 1)

\* C9 as amended: the result is the texts of the pages whose extraction did
\* not raise, joined by newline in page order, a page without text counting
\* as the empty text; a page whose extraction raises adds no segment.
C9_OneSegmentPerExtractedPage ==
    IsOpenedPdf =>
        LET good == GoodPages(upload.pages, 1)
        IN  /\ ~extracted.raised
            /\ extracted.value =
                  str_join(NL, [k \in 1..Len(good) |-> PageTextOrEmpty(good[k])], 1)
            /\ Len(SplitLines(extracted.value)) = Max(1, Len(good))

\* C9 witness: a failing page between two good pages
C9_Witness ==
    /\ IsOpenedPdf
    /\ Len(upload.pages) = 3
    /\ ~upload.pages[1].raises /\ upload.pages[1].text = "A"
    /\ upload.pages[2].raises
    /\ ~upload.pages[3].raises /\ upload.pages[3].text = "B"
    /\ extracted.value = "A" \o NL \o "B"

------------------------------------------------------------------------------
(* Prompting and the completion client *)

HOUSE_STYLE_NAME == "Neogen House Style"

\* str(n) for the numbers the slider gives
IntToStr == [n \in 0..10 |-> IF n = 10 THEN "10" ELSE Ch(Digits, n + 1)]

\* the text call_llm returns when there is no client
FALLBACK_PACK ==
    "**Introduction (Script, 1#2 mins)**\n"
    \o "@ Welcome and interview format overview.\n\n"
    \o "**Background & Experience (5#8 mins)**\n"
    \o "@ Tell me about one project most similar to this role's remit. # What "
       \o "was your exact scope? # What changed due to your work?\n\n"
    \o "**Motivation for Neogen (2#3 mins)**\n"
    \o "@ What draws you to this role and the problems we solve?\n\n"
    \o "**Skills & Qualifications (6#8 mins)**\n"
    \o "@ Walk me through a recent example demonstrating a core JD must-have. "
       \o "# How did you measure success?\n\n"
    \o "**Company Knowledge (2#3 mins)**\n"
    \o "@ Where could you contribute in your first 90 days and why?\n\n"
    \o "**Role-Specific Questions (Core, 10#12 mins)**\n"
    \o "@ Deep dive prompt...\n\n"
    \o "**Behavioural (Values & Ways of Working, 6#8 mins)**\n"
    \o "@ Tell me about a time you influenced without authority. # What would "
       \o "you do differently next time?\n\n"
    \o "**Scenario-Based / Problem-Solving (6#8 mins)**\n"
    \o "@ Scenario prompt with (Good:) and (Red flag:) cues.\n\n"
    \o "**Candidate Questions (2#4 mins)**\n"
    \o "@ 3 example candidate questions...\n\n"
    \o "**Conclusion & Next Steps (Script, 1#2 mins)**\n"
    \o "@ Thank you + next steps script.\n\n"
    \o "**Evaluation Rubric (Concise)**\n"
    \o "@ Criteria with 1/3/5 descriptors...\n\n"
    \o "**Scorecard Template & Notes Page**\n"
    \o "@ Role | Interviewer | Date ...\n"

build_system_prompt ==
    str_strip(NL
        \o "You are an expert TA Partner at Neogen Corporation. Write in the "
           \o HOUSE_STYLE_NAME
           \o ": clear section headers in **bold**, concise bullet points (@), UK "
           \o "English, and a professional but human tone.\n"
        \o "LEGAL COMPLIANCE: Only generate questions that are compliant in both "
           \o "the US and Europe. Do NOT ask about protected characteristics (e.g., "
           \o "age, race, colour, national origin/citizenship, religion, sex/gender, "
           \o "sexual orientation, gender identity, pregnancy/family/marital status, "
           \o "disability/health/genetic information), union affiliation, or other "
           \o "locally protected classes. Avoid salary history questions in "
           \o "jurisdictions that restrict them. If right-to-work is relevant, "
           \o "phrase neutrally (e.g., \"Are you legally authorised to work in "
           \o "<region>?\") without probing immigration status.\n"
        \o "Keep questions specific, practical, and evidence-based. Provide brief "
           \o "follow-ups and inline (Good:) and (Red flag:) cues where helpful. "
           \o "Tailor everything strictly to the JD.\n")

build_user_prompt(jd, seniority_, region_, per_section_, include_legal_footer_) ==
    LET legal_footer ==
            IF ~include_legal_footer_ THEN ""
            ELSE "\n\n**Compliance Advisory (for interviewer reference)**\n"
                 \o "@ Avoid questions touching protected characteristics or salary "
                    \o "history (where restricted).\n"
                 \o "@ If a function requires background checks or driving, state this "
                    \o "neutrally and per local law.\n"
                 \o "@ Focus on essential functions, measurable outcomes, and reasonable "
                    \o "accommodations where relevant.\n"
    IN  str_strip(NL
        \o "JOB DESCRIPTION (verbatim):\n"
        \o "---\n"
        \o jd
           \o "\n"
        \o "---\n"
        \o "\n"
        \o "Context:\n"
        \o "- Seniority: "
           \o seniority_
           \o "\n"
        \o "- Region/Market context: "
           \o region_
           \o "\n"
        \o "- Aim: Produce a practical, low-jargon interview pack aligned to "
           \o "Neogen's first-interview template. Keep questions specific to the "
           \o "role, tech stack, stakeholders, and outcomes in the JD.\n"
        \o "- Quantity: ~"
           \o IntToStr[per_section_]
           \o " questions per major section (use judgement based on JD importance).\n"
        \o "\n"
        \o "Deliverables in this exact structure (use **bold** for headers and "
           \o "bullets for lists). Keep bullets punchy. Include brief follow-ups "
           \o "where useful. Prefer concrete, job-relevant prompts over generic "
           \o "ones.\n"
        \o "\n"
        \o "**Introduction (Script, 1#2 mins)**\n"
        \o "@ One-paragraph welcome and format overview.\n"
        \o "\n"
        \o "**Background & Experience (5#8 mins)**\n"
        \o "@ 2#3 tailored prompts that surface the MOST relevant prior work for "
           \o "this role (avoid CV walk-throughs). # Include 1 follow-up under each "
           \o "bullet.\n"
        \o "\n"
        \o "**Motivation for Neogen (2#3 mins)**\n"
        \o "@ 2#3 prompts testing understanding of Neogen and role fit in this "
           \o "region/market.\n"
        \o "\n"
        \o "**Skills & Qualifications (6#8 mins)**\n"
        \o "@ "
           \o IntToStr[per_section_]
           \o " prompts tied directly to the JD must-haves (tools, methods, "
           \o "regulations, stakeholders). # Add 1 follow-up per bullet.\n"
        \o "\n"
        \o "**Company Knowledge (2#3 mins)**\n"
        \o "@ 2 targeted prompts on how the candidate would contribute to "
           \o "Neogen's mission in this function.\n"
        \o "\n"
        \o "**Role-Specific Questions (Core, 10#12 mins)**\n"
        \o "@ "
           \o IntToStr[per_section_]
           \o " deep-dive prompts grounded in the JD's outcomes. Ask for "
           \o "artefacts/metrics/decision criteria.\n"
        \o "\n"
        \o "**Behavioural (Values & Ways of Working, 6#8 mins)**\n"
        \o "@ "
           \o IntToStr[per_section_]
           \o " STAR-oriented prompts mapped to collaboration, customer focus, "
           \o "integrity, growth mindset. # Add a realistic follow-up per bullet.\n"
        \o "\n"
        \o "**Scenario-Based / Problem-Solving (6#8 mins)**\n"
        \o "@ "
           \o IntToStr[per_section_]
           \o " realistic scenarios using JD context (include data/constraints). # "
           \o "Add quick grading cues as (Good:) and (Red flag:).\n"
        \o "\n"
        \o "**Candidate Questions (2#4 mins)**\n"
        \o "@ 3 suggested questions a strong candidate might ask (for interviewer "
           \o "awareness).\n"
        \o "\n"
        \o "**Conclusion & Next Steps (Script, 1#2 mins)**\n"
        \o "@ A short close-out script and immediate next steps.\n"
        \o "\n"
        \o "**Evaluation Rubric (Concise)**\n"
        \o "@ Define 3#5 criteria with descriptors for 1 (Below), 3 (Meets), 5 "
           \o "(Exceeds).\n"
        \o "\n"
        \o "**Scorecard Template & Notes Page**\n"
        \o "@ Role | Interviewer | Date.\n"
        \o "@ Sections & Scores (1#5): Background | Motivation | Skills | Company "
           \o "| Role-Specific | Behavioural | Scenario.\n"
        \o "@ Overall recommendation (Yes/No + 2#3 bullets rationale).\n"
        \o "@ Notes: 12 numbered lines for handwritten/typed notes.\n"
        \o legal_footer
           \o "\n"
        \o "\n"
        \o "Formatting notes:\n"
        \o "- Use bold section headers exactly as shown.\n"
        \o "- Use standard bullets (@). Use short, scannable lines in British "
           \o "English.\n"
        \o "- No markdown code fences.\n")

\* the request of _client.chat.completions.create
Request(prompt, system_prompt, model_) ==
    [model |-> model_, system |-> system_prompt, user |-> prompt,
     temperature |-> "0.4", max_tokens |-> 2400]

\* call_llm as it would be without the test of _client: the attribute lookup
\* on None raises
call_llm_WithoutFallback(prompt, system_prompt, model_, cl, api) ==
    IF cl = "None" THEN [raised |-> TRUE, text |-> "", sent |-> <<>>]
    ELSE IF api.kind = "error"
         THEN [raised |-> TRUE, text |-> "", sent |-> <<Request(prompt, system_prompt, model_)>>]
         ELSE [raised |-> FALSE, text |-> IF api.kind = "none" THEN "" ELSE api.content,
               sent |-> <<Request(prompt, system_prompt, model_)>>]

\* call_llm as it would be with one more attempt after a failed request
call_llm_RetryOnce(prompt, system_prompt, model_, cl, api) ==
    IF cl = "None" THEN [raised |-> FALSE, text |-> FALLBACK_PACK, sent |-> <<>>]
    ELSE IF api.kind = "error"
         THEN [raised |-> TRUE, text |-> "",
               sent |-> <<Request(prompt, system_prompt, model_),
                          Request(prompt, system_prompt, model_)>>]
         ELSE [raised |-> FALSE, text |-> IF api.kind = "none" THEN "" ELSE api.content,
               sent |-> <<Request(prompt, system_prompt, model_)>>]

\* call_llm: what it returns or that it raised, and the requests it sent.
\* api is what the endpoint does with a request: an error, a completion
\* without content, or a completion with content.
call_llm(prompt, system_prompt, model_, cl, api) ==
    IF cl = "None" THEN [raised |-> FALSE, text |-> FALLBACK_PACK, sent |-> <<>>]
    ELSE IF api.kind = "error"
         THEN [raised |-> TRUE, text |-> "", sent |-> <<Request(prompt, system_prompt, model_)>>]
         ELSE [raised |-> FALSE, text |-> IF api.kind = "none" THEN "" ELSE api.content,
               sent |-> <<Request(prompt, system_prompt, model_)>>]

------------------------------------------------------------------------------
(* The page: one run of the script from top to bottom, after an           *)
(* interaction.  An exception that leaves the script ends the run: what   *)
(* the run showed before it stays, the exception is shown, and the rest   *)
(* of the page is not drawn.                                              *)

NoCall == [made |-> FALSE, prompt |-> "", system |-> "", model |-> "",
           result |-> [raised |-> FALSE, text |-> "", sent |-> <<>>]]

Page(exc, msgs, received, fnd, button, pressed, shown, pack_md, pack_doc, dl) ==
    [exception |-> exc,          \* "none", or where an exception left the script
     messages |-> msgs,          \* st.error and st.warning of the extraction and the rendering
     jd_received |-> received,   \* "Job Description received."
     findings |-> fnd,           \* the compliance hints
     button |-> button,          \* Generate Interview Pack is on the page
     generate_btn |-> pressed,   \* the value the button gave this run
     pack_shown |-> shown,       \* the Interview Pack Preview is on the page
     md |-> pack_md,             \* the preview's text
     docx |-> pack_doc,          \* the paragraphs of the DOCX download
     downloads |-> dl]           \* the two download buttons are on the page

\* the script from jd_text = "" (line 340) to its end: the page it draws and
\* the call of call_llm it makes
RunScript(up, area, st, generate_btn, api, cl, doc_module, pdf_module) ==
    LET ext == IF up.present THEN extract_text_from_upload(up, doc_module, pdf_module)
               ELSE Returned("")
        jd_text == IF ext.value # "" THEN ext.value ELSE area
    IN  IF ext.raised
        THEN [page |-> Page("extract", <<>>, FALSE, <<>>, FALSE, generate_btn, FALSE, "", <<>>, FALSE),
              call |-> NoCall]
        ELSE IF jd_text = ""
        THEN [page |-> Page("none", ext.messages, FALSE, <<>>, FALSE, generate_btn, FALSE, "", <<>>, FALSE),
              call |-> NoCall]
        ELSE IF ~generate_btn
        THEN [page |-> Page("none", ext.messages, TRUE, compliance_findings(jd_text), TRUE,
                            FALSE, FALSE, "", <<>>, FALSE),
              call |-> NoCall]
        ELSE LET system_prompt == build_system_prompt
                 user_prompt == build_user_prompt(jd_text, st.seniority, st.region,
                                                  st.per_section, st.include_legal_footer)
                 res == call_llm(user_prompt, system_prompt, st.model, cl, api)
                 made == [made |-> TRUE, prompt |-> user_prompt, system |-> system_prompt,
                          model |-> st.model, result |-> res]
             IN  IF res.raised
                 THEN [page |-> Page("api", ext.messages, TRUE, compliance_findings(jd_text), TRUE,
                                     TRUE, FALSE, "", <<>>, FALSE),
                       call |-> made]
                 ELSE LET doc == to_docx(to_markdown(res.text), doc_module)
                      IN  [page |-> Page("none", ext.messages \o doc.errors, TRUE,
                                         compliance_findings(jd_text), TRUE, TRUE, TRUE,
                                         to_markdown(res.text), doc.paragraphs, TRUE),
                           call |-> made]

------------------------------------------------------------------------------
(* The session: the interactions of a user, each followed by a run *)

MaxPresses == 2

DefaultSettings ==
    [seniority |-> "Senior", region |-> "USA", per_section |-> 5,
     model |-> "gpt-4o-mini", include_legal_footer |-> TRUE]

SettingsSamples ==
    {DefaultSettings,
     [DefaultSettings EXCEPT !.include_legal_footer = FALSE],
     [seniority |-> "Entry", region |-> "EMEA", per_section |-> 10,
      model |-> "gpt-4.1", include_legal_footer |-> FALSE]}

AreaSamples == {"", "young dev"}

UiUploads ==
    {NoUpload,
     File("jd.txt", <<97>>, FALSE, <<>>, <<>>),
     File("jd.txt", <<>>, FALSE, <<>>, <<>>),
     File("jd.docx", <<>>, FALSE, <<>>, <<>>)}

ApiOutcomes ==
    {[kind |-> "error", content |-> ""],
     [kind |-> "none", content |-> ""],
     [kind |-> "content", content |-> "**Introduction**" \o NL \o BULLET \o " Welcome." \o NL]}

NoApi == [kind |-> "none", content |-> ""]

UiInit ==
    /\ ScanIdle
    /\ RenderIdle
    /\ extracted = NoResult
    /\ extract_pc = "idle"
    /\ Document = "docx"
    /\ PdfReader = "pypdf"
    /\ client \in {"OpenAI", "None"}
    /\ upload = NoUpload
    /\ jd_text_area = ""
    /\ settings = DefaultSettings
    /\ view = RunScript(NoUpload, "", DefaultSettings, FALSE, NoApi, client, Document, PdfReader).page
    /\ call = NoCall
    /\ presses = 0
    /\ requests = 0
    /\ failures = 0

\* a run that no press of Generate started
Rerun(up, area, st) ==
    /\ view' = RunScript(up, area, st, FALSE, NoApi, client, Document, PdfReader).page
    /\ UNCHANGED <<call, presses, requests, failures, scanVars, renderVars, extractVars, libVars>>

\* the user types or pastes into the text area
PasteJD ==
    \E t \in AreaSamples \ {jd_text_area} :
        /\ jd_text_area' = t
        /\ Rerun(upload, t, settings)
        /\ UNCHANGED <<upload, settings>>

\* the user uploads a file, or takes the upload away
UploadFile ==
    \E u \in UiUploads \ {upload} :
        /\ upload' = u
        /\ Rerun(u, jd_text_area, settings)
        /\ UNCHANGED <<jd_text_area, settings>>

\* the user changes the sidebar
ChangeSettings ==
    \E st \in SettingsSamples \ {settings} :
        /\ settings' = st
        /\ Rerun(upload, jd_text_area, st)
        /\ UNCHANGED <<upload, jd_text_area>>

\* Clear inputs: the session state's keys are deleted (the widgets have
\* none) and st.rerun() starts the script again
ClearInputs ==
    /\ Rerun(upload, jd_text_area, settings)
    /\ UNCHANGED <<upload, jd_text_area, settings>>

\* the user presses Generate Interview Pack, which is on the page
PressGenerate ==
    /\ view.button
    /\ presses < MaxPresses
    /\ \E api \in ApiOutcomes :
          LET run == RunScript(upload, jd_text_area, settings, TRUE, api, client,
                               Document, PdfReader)
          IN  /\ view' = run.page
              /\ call' = run.call
              /\ presses' = presses + 1
              /\ requests' = requests + Len(run.call.result.sent)
              /\ failures' = failures + (IF run.call.result.raised THEN 1 ELSE 0)
    /\ UNCHANGED <<upload, jd_text_area, settings, scanVars, renderVars, extractVars, libVars>>

\* the user presses one of the download buttons, which are on the page
Download ==
    /\ view.downloads
    /\ Rerun(upload, jd_text_area, settings)
    /\ UNCHANGED <<upload, jd_text_area, settings>>

UiNext ==
    PasteJD \/ UploadFile \/ ChangeSettings \/ ClearInputs \/ PressGenerate \/ Download

SpecUI == UiInit /\ [][UiNext]_vars

------------------------------------------------------------------------------
(* Claims about the completion client and the session *)

\* the twelve sections, by the words their headers begin with, in the order
\* of the structure build_user_prompt gives
SECTION_NAMES ==
    <<"Introduction", "Background & Experience", "Motivation", "Skills & Qualifications",
      "Company Knowledge", "Role-Specific", "Behavioural", "Scenario-Based",
      "Candidate Questions", "Conclusion", "Evaluation Rubric", "Scorecard Template">>

IsHeaderLine(ln) == Len(ln) > 4 /\ startswith(ln, "**") /\ endswith(ln, "**")

\* the section a header line names, "" when it names none of the twelve
SectionOf(ln) ==
    LET named == {k \in 1..Len(SECTION_NAMES) : startswith(ln, "**" \o SECTION_NAMES[k])}
    IN  IF named = {} THEN "" ELSE SECTION_NAMES[CHOOSE k \in named : TRUE]

IsNamed(nm) == nm # ""

\* the named sections of a text, in the order of its header lines
SectionsIn(txt) ==
    LET headers == SelectSeq(SplitLines(txt), IsHeaderLine)
    IN  SelectSeq([i \in 1..Len(headers) |-> SectionOf(headers[i])], IsNamed)

\* C2: without a client, call_llm returns the one fallback text whatever the
\* prompts and the model are, sends no request, and the fallback's headers
\* name the twelve sections in the order in which the user prompt names them.
C2_FallbackWithoutClient ==
    (client = "None" /\ call.made) =>
        /\ ~call.result.raised
        /\ call.result.text = FALLBACK_PACK
        /\ call.result.sent = <<>>
        /\ requests = 0
        /\ Len(SectionsIn(call.result.text)) = 12
        /\ SectionsIn(call.result.text) = SECTION_NAMES
        /\ SectionsIn(call.result.text) = SectionsIn(call.prompt)

\* a pack generated without a client, for a model and settings that are not
\* the defaults
C2_Witness ==
    /\ client = "None"
    /\ call.made
    /\ call.model = "gpt-4.1"
    /\ call.prompt = build_user_prompt("young dev", "Entry", "EMEA", 10, FALSE)
    /\ view.pack_shown
    /\ view.md = to_markdown(FALLBACK_PACK)

\* C10: with a client, every press of Generate Interview Pack sends exactly
\* one request and no other run sends any; a failed request is not sent
\* again, its run ends with the error and shows neither the pack nor the
\* downloads, and the button is still there for the next press.
C10_OneRequestPerPress ==
    client # "None" =>
        /\ requests = presses
        /\ call.made => Len(call.result.sent) = 1
        /\ ~view.generate_btn => (~view.pack_shown /\ ~view.downloads /\ view.exception # "api")
        /\ view.exception = "api" =>
               /\ call.result.raised
               /\ call.result.sent = <<Request(call.prompt, call.system, call.model)>>
               /\ ~view.pack_shown
               /\ ~view.downloads
               /\ view.button
               /\ view.jd_received
        /\ (view.generate_btn /\ view.exception = "none") =>
               (~call.result.raised /\ view.pack_shown /\ view.downloads)

\* a press whose request failed, and a later press whose request came back
C10_Witness ==
    /\ client = "OpenAI"
    /\ failures = 1
    /\ presses = 2
    /\ requests = 2
    /\ view.generate_btn
    /\ view.pack_shown
    /\ ~call.result.raised

==============================================================================
